---- MODULE Spec2Model ----
(***************************************************************************)
(* Paired naive / optimized routines of inefficient_algorithms.py and      *)
(* efficient_algorithms.py, and the timing harness compare_performance.    *)
(*                                                                         *)
(* Python lists are sequences (index k of Python is index k+1 here),       *)
(* Python strings are sequences of one-character strings, Python sets are  *)
(* sets, and list(a_set) is any enumeration of the set without repetition. *)
(***************************************************************************)
EXTENDS Integers, Sequences, FiniteSets, TLC

VARIABLES
    pc,                 \* position of the driver / of the running routine
    op,                 \* the catalog operation (or script) being run
    args,               \* the arguments of the current call, a record
    inefficient,        \* DataProcessor object: its fields
    efficient,          \* EfficientDataProcessor object: its fields
    inefficient_result, \* value returned by the naive variant
    efficient_result,   \* value returned by the optimized variant
    raised,             \* exception that left the running routine, or "None"
    stack,              \* call frames of efficient_calculation_caching
    memo,               \* the dict bound to memo in the running call chain
    calls,              \* number of completed naive/optimized call pairs
    file,               \* the file named by filename: Absent or its lines
    line_count,         \* local of inefficient_file_processing
    inefficient_time,   \* local of compare_performance
    efficient_time,     \* local of compare_performance
    stdout,             \* lines printed so far
    invoked,            \* the routines compare_performance has called
    set_order           \* the list this interpreter made of the set the
                        \* optimized variant builds, once it has made one

vars == <<pc, op, args, inefficient, efficient, inefficient_result,
          efficient_result, raised, stack, memo, calls, file, line_count,
          inefficient_time, efficient_time, stdout, invoked, set_order>>

(***************************************************************************)
(* Bounds of the model.                                                    *)
(***************************************************************************)
MaxInt == 2
MaxLen == 4
MaxPairLen == 2
MaxWordLen == 2
MaxWords == 2
MaxRows == 4
MaxCols == 2
MaxN == 20
MaxCalls == 2
MaxFileLines == 2
MaxTime == 2
\* stand-ins for the 1000 and 500 of test_data and the 1000 words
TestSize == 4
TestHalf == 2
TestWords == 3

Vals == 0..MaxInt
Alphabet == {"a", " "}
\* the characters str.strip() removes that occur in the model
Whitespace == {" ", "\t", "\n"}

SeqsUpTo(S, n) == UNION {[1..k -> S] : k \in 0..n}

Range(s) == {s[k] : k \in DOMAIN s}

None == "None"

\* A local that may not be bound yet is <<>> while unbound and <<v>> once
\* it holds v.
Unbound == <<>>

Bind(v) == <<v>>

(***************************************************************************)
(* Sequence helpers for Python list primitives.                            *)
(***************************************************************************)
\* x in lst
In(x, lst) == \E k \in DOMAIN lst : lst[k] = x

\* all enumerations of a set without repetition: the possible list(a_set)
ListOf(S) == {s \in [1..Cardinality(S) -> S] : Range(s) = S}

(***************************************************************************)
(* Strings.                                                                *)
(***************************************************************************)
RECURSIVE LStrip(_)
LStrip(s) ==
    IF s # <<>> /\ Head(s) \in Whitespace THEN LStrip(Tail(s)) ELSE s

RECURSIVE RStrip(_)
RStrip(s) ==
    IF s # <<>> /\ s[Len(s)] \in Whitespace
    THEN RStrip(SubSeq(s, 1, Len(s) - 1))
    ELSE s

\* str.strip(): leading and trailing whitespace removed
Strip(s) == RStrip(LStrip(s))

\* for word in words: result = result + word + " "
RECURSIVE ConcatLoop(_, _, _)
ConcatLoop(words, k, result) ==
    IF k > Len(words) THEN result
    ELSE ConcatLoop(words, k + 1, result \o words[k] \o <<" ">>)

\* faulty variant: rstrip() in place of strip()
Mut_inefficient_string_concatenation(words) ==
    RStrip(ConcatLoop(words, 1, <<>>))

inefficient_string_concatenation(words) == Strip(ConcatLoop(words, 1, <<>>))

\* sep.join(words): the words with sep between neighbours
RECURSIVE Join(_, _)
Join(sep, words) ==
    IF words = <<>> THEN <<>>
    ELSE IF Len(words) = 1 THEN words[1]
    ELSE words[1] \o sep \o Join(sep, Tail(words))

efficient_string_concatenation(words) == Join(<<" ">>, words)

(***************************************************************************)
(* Duplicate detection.                                                    *)
(***************************************************************************)
\* for j in range(i + 1, len(data)): ... (i, j are Python's indices plus 1)
RECURSIVE NestedInner(_, _, _, _)
NestedInner(data, i, j, duplicates) ==
    IF j > Len(data) THEN duplicates
    ELSE NestedInner(data, i, j + 1,
             IF data[i] = data[j] /\ ~In(data[i], duplicates)
             THEN Append(duplicates, data[i])
             ELSE duplicates)

\* faulty variant: the inner loop starts at i instead of i + 1
RECURSIVE Mut_NestedOuter(_, _, _)
Mut_NestedOuter(data, i, duplicates) ==
    IF i > Len(data) THEN duplicates
    ELSE Mut_NestedOuter(data, i + 1, NestedInner(data, i, i, duplicates))

\* for i in range(len(data)): ...
RECURSIVE NestedOuter(_, _, _)
NestedOuter(data, i, duplicates) ==
    IF i > Len(data) THEN duplicates
    ELSE NestedOuter(data, i + 1, NestedInner(data, i, i + 1, duplicates))

inefficient_nested_loops(data) == NestedOuter(data, 1, <<>>)

\* for item in data: if item in seen: duplicates.add(item) else: seen.add(item)
RECURSIVE DuplicateLoop(_, _, _, _)
DuplicateLoop(data, k, seen, duplicates) ==
    IF k > Len(data) THEN duplicates
    ELSE IF data[k] \in seen
         THEN DuplicateLoop(data, k + 1, seen, duplicates \cup {data[k]})
         ELSE DuplicateLoop(data, k + 1, seen \cup {data[k]}, duplicates)

\* the lists list(duplicates) may be
efficient_duplicate_detection(data) == ListOf(DuplicateLoop(data, 1, {}, {}))

(***************************************************************************)
(* List transformation.                                                    *)
(***************************************************************************)
\* list.remove(x): the first occurrence of x removed
ListRemove(lst, x) ==
    LET k == CHOOSE k \in DOMAIN lst :
                 lst[k] = x /\ \A m \in 1..(k - 1) : lst[m] # x
    IN  SubSeq(lst, 1, k - 1) \o SubSeq(lst, k + 1, Len(lst))

\* faulty variant: append(x) in place of insert(0, x)
Mut_InsertFront(lst, x) == Append(lst, x)

\* list.insert(0, x)
InsertFront(lst, x) == <<x>> \o lst

\* while temp_list: ...
RECURSIVE ListLoop(_, _)
ListLoop(temp_list, result) ==
    IF temp_list = <<>> THEN result
    ELSE LET first_element == temp_list[1]
         IN  ListLoop(ListRemove(temp_list, first_element),
                      InsertFront(result, first_element * 2))

inefficient_list_operations(numbers) == ListLoop(numbers, <<>>)

\* while temp_deque: popleft, appendleft
RECURSIVE DequeLoop(_, _)
DequeLoop(temp_deque, result) ==
    IF temp_deque = <<>> THEN result
    ELSE LET first_element == Head(temp_deque)
         IN  DequeLoop(Tail(temp_deque), <<first_element * 2>> \o result)

efficient_list_operations(numbers) == DequeLoop(numbers, <<>>)

(***************************************************************************)
(* Sorting.                                                                *)
(***************************************************************************)
\* result[j], result[j + 1] = result[j + 1], result[j]   (j is Python's index)
Swap(result, j) ==
    [result EXCEPT ![j + 1] = result[j + 2], ![j + 2] = result[j + 1]]

\* faulty variant: the inner loop stops one comparison early
RECURSIVE Mut_BubbleInner(_, _, _, _)
Mut_BubbleInner(result, n, i, j) ==
    IF j >= n - i - 2 THEN result
    ELSE Mut_BubbleInner(IF result[j + 1] > result[j + 2]
                         THEN Swap(result, j) ELSE result,
                         n, i, j + 1)

\* for j in range(0, n - i - 1): ...
RECURSIVE BubbleInner(_, _, _, _)
BubbleInner(result, n, i, j) ==
    IF j >= n - i - 1 THEN result
    ELSE BubbleInner(IF result[j + 1] > result[j + 2]
                     THEN Swap(result, j) ELSE result,
                     n, i, j + 1)

\* for i in range(n): ...
RECURSIVE BubbleOuter(_, _, _)
BubbleOuter(result, n, i) ==
    IF i >= n THEN result
    ELSE BubbleOuter(BubbleInner(result, n, i, 0), n, i + 1)

inefficient_sorting(data) == BubbleOuter(data, Len(data), 0)

\* sorted() on a short list is a stable insertion sort: x goes after the
\* elements of the sorted prefix that are not greater than it
RECURSIVE InsertSorted(_, _)
InsertSorted(prefix, x) ==
    IF prefix = <<>> THEN <<x>>
    ELSE IF x < prefix[Len(prefix)]
         THEN Append(InsertSorted(SubSeq(prefix, 1, Len(prefix) - 1), x),
                     prefix[Len(prefix)])
         ELSE Append(prefix, x)

RECURSIVE SortedLoop(_, _, _)
SortedLoop(data, k, prefix) ==
    IF k > Len(data) THEN prefix
    ELSE SortedLoop(data, k + 1, InsertSorted(prefix, data[k]))

efficient_sorting(data) == SortedLoop(data, 1, <<>>)

(***************************************************************************)
(* Set intersection.                                                       *)
(***************************************************************************)
\* faulty variant: no "item1 not in intersection" test
RECURSIVE Mut_IntersectInner(_, _, _, _)
Mut_IntersectInner(item1, list2, k, intersection) ==
    IF k > Len(list2) THEN intersection
    ELSE Mut_IntersectInner(item1, list2, k + 1,
             IF item1 = list2[k]
             THEN Append(intersection, item1)
             ELSE intersection)

\* for item2 in list2: if item1 == item2 and item1 not in intersection: ...
RECURSIVE IntersectInner(_, _, _, _)
IntersectInner(item1, list2, k, intersection) ==
    IF k > Len(list2) THEN intersection
    ELSE IntersectInner(item1, list2, k + 1,
             IF item1 = list2[k] /\ ~In(item1, intersection)
             THEN Append(intersection, item1)
             ELSE intersection)

\* for item1 in list1: ...
RECURSIVE IntersectOuter(_, _, _, _)
IntersectOuter(list1, list2, k, intersection) ==
    IF k > Len(list1) THEN intersection
    ELSE IntersectOuter(list1, list2, k + 1,
             IntersectInner(list1[k], list2, 1, intersection))

inefficient_set_operations(list1, list2) ==
    IntersectOuter(list1, list2, 1, <<>>)

\* the lists list(set(list1) & set(list2)) may be
efficient_set_operations(list1, list2) ==
    ListOf(Range(list1) \cap Range(list2))

(***************************************************************************)
(* Membership test.                                                        *)
(***************************************************************************)
\* for item in data: if item not in lookup_list: lookup_list.append(item)
RECURSIVE LookupLoop(_, _, _)
LookupLoop(data, k, lookup_list) ==
    IF k > Len(data) THEN lookup_list
    ELSE LookupLoop(data, k + 1,
             IF ~In(data[k], lookup_list)
             THEN Append(lookup_list, data[k])
             ELSE lookup_list)

\* for target in targets: results.append(target in lookup_list)
RECURSIVE TargetLoop(_, _, _, _)
TargetLoop(targets, k, lookup_list, results) ==
    IF k > Len(targets) THEN results
    ELSE TargetLoop(targets, k + 1, lookup_list,
                    Append(results, In(targets[k], lookup_list)))

inefficient_data_structure_choice(data, targets) ==
    TargetLoop(targets, 1, LookupLoop(data, 1, <<>>), <<>>)

\* faulty variant: the set is built from targets and probed with data
Mut_efficient_data_structure_choice(data, targets) ==
    LET lookup_set == Range(targets)
    IN  [k \in 1..Len(data) |-> data[k] \in lookup_set]

efficient_data_structure_choice(data, targets) ==
    LET lookup_set == Range(data)
    IN  [k \in 1..Len(targets) |-> targets[k] \in lookup_set]

(***************************************************************************)
(* Partial matrix sum.  An accumulator is [total, exc]: exc is the         *)
(* exception an index out of range raises, None while there is none.       *)
(***************************************************************************)
Min(a, b) == IF a < b THEN a ELSE b

\* total += matrix[i][j]   (i, j are Python's indices)
AddCell(acc, matrix, i, j) ==
    IF acc.exc # None THEN acc
    ELSE IF i < Len(matrix) /\ j < Len(matrix[i + 1])
         THEN [total |-> acc.total + matrix[i + 1][j + 1], exc |-> None]
         ELSE [total |-> acc.total, exc |-> "IndexError"]

\* for j in range(len(matrix[i])): if i < len(matrix) // 2 and j < ... // 2
RECURSIVE InvariantInner(_, _, _, _)
InvariantInner(matrix, i, j, acc) ==
    IF acc.exc # None \/ j >= Len(matrix[i + 1]) THEN acc
    ELSE InvariantInner(matrix, i, j + 1,
             IF i < Len(matrix) \div 2 /\ j < Len(matrix[i + 1]) \div 2
             THEN AddCell(acc, matrix, i, j)
             ELSE acc)

\* for i in range(len(matrix)): ...
RECURSIVE InvariantOuter(_, _, _)
InvariantOuter(matrix, i, acc) ==
    IF acc.exc # None \/ i >= Len(matrix) THEN acc
    ELSE InvariantOuter(matrix, i + 1, InvariantInner(matrix, i, 0, acc))

inefficient_loop_invariant(matrix) ==
    InvariantOuter(matrix, 0, [total |-> 0, exc |-> None])

\* faulty variant: the column bound hoisted out of the row loop, from row 0
Mut_RowBound(matrix, i) ==
    LET row_half == Len(matrix[1]) \div 2
    IN  Min(row_half, Len(matrix[1]))

\* row_half = len(matrix[i]) // 2; range(min(row_half, len(matrix[i])))
RowBound(matrix, i) ==
    LET row_half == Len(matrix[i + 1]) \div 2
    IN  Min(row_half, Len(matrix[i + 1]))

\* for j in range(bound): total += matrix[i][j]
RECURSIVE QuadrantInner(_, _, _, _, _)
QuadrantInner(matrix, i, j, bound, acc) ==
    IF acc.exc # None \/ j >= bound THEN acc
    ELSE QuadrantInner(matrix, i, j + 1, bound, AddCell(acc, matrix, i, j))

\* for i in range(min(matrix_half, len(matrix))): ...
RECURSIVE QuadrantOuter(_, _, _, _)
QuadrantOuter(matrix, i, rows, acc) ==
    IF acc.exc # None \/ i >= rows THEN acc
    ELSE QuadrantOuter(matrix, i + 1, rows,
             QuadrantInner(matrix, i, 0, RowBound(matrix, i), acc))

efficient_loop_invariant(matrix) ==
    LET matrix_half == Len(matrix) \div 2
    IN  QuadrantOuter(matrix, 0, Min(matrix_half, Len(matrix)),
                      [total |-> 0, exc |-> None])

(***************************************************************************)
(* Fibonacci.  The naive variant is evaluated whole; the memoized variant  *)
(* runs frame by frame on stack, all frames sharing the dict memo.         *)
(***************************************************************************)
RECURSIVE inefficient_calculation_caching(_)
inefficient_calculation_caching(n) ==
    IF n <= 1 THEN n
    ELSE inefficient_calculation_caching(n - 1)
         + inefficient_calculation_caching(n - 2)

EmptyDict == [k \in {} |-> 0]

\* memo[n] = result
DictPut(d, k, v) == [x \in DOMAIN d \cup {k} |-> IF x = k THEN v ELSE d[x]]

\* faulty variant: a mutable default argument, memo = {} in the signature
Mut_EnterMemo(passed, current) == current

\* if memo is None: memo = {}    (passed: the caller gave a memo argument;
\* current: the dict the caller passed, or what earlier calls left behind)
EnterMemo(passed, current) == IF passed THEN current ELSE EmptyDict

Frame(n) == [n |-> n, stage |-> "enter", first |-> 0, result |-> 0]

Top(stk) == stk[Len(stk)]

Pop(stk) == SubSeq(stk, 1, Len(stk) - 1)

\* the value v returned to the frame on top of rest: after the first
\* recursive call the caller makes the second, after the second it adds
Deliver(rest, v) ==
    IF rest = <<>> THEN rest
    ELSE LET c == Top(rest)
         IN  IF c.stage = "first"
             THEN Append([rest EXCEPT ![Len(rest)] =
                              [c EXCEPT !.stage = "second", !.first = v]],
                         Frame(c.n - 2))
             ELSE [rest EXCEPT ![Len(rest)] =
                       [c EXCEPT !.stage = "store", !.result = c.first + v]]

(***************************************************************************)
(* Counting.                                                               *)
(***************************************************************************)
\* for item in items: counts[item] = counts[item] + 1, or counts[item] = 1
RECURSIVE CountLoop(_, _, _)
CountLoop(items, k, counts) ==
    IF k > Len(items) THEN counts
    ELSE LET item == items[k]
         IN  IF item \in DOMAIN counts
             THEN CountLoop(items, k + 1, DictPut(counts, item, counts[item] + 1))
             ELSE CountLoop(items, k + 1, DictPut(counts, item, 1))

inefficient_dictionary_lookup(items) == CountLoop(items, 1, EmptyDict)

\* dict(Counter(items)): every item that occurs, with how often it occurs
efficient_dictionary_lookup(items) ==
    [item \in Range(items) |->
        Cardinality({k \in DOMAIN items : items[k] = item})]

(***************************************************************************)
(* Arguments are passed by reference.  A routine that changes the list one *)
(* of its locals names changes the caller's list when the local names the  *)
(* argument itself, and leaves it alone when the local names a copy.       *)
(***************************************************************************)
\* what the caller's list holds after the routine, final being what the
\* local holds at the return
LeftInArgument(is_copy, argument, final) ==
    IF is_copy THEN argument ELSE final

\* temp_list = numbers.copy()
TempListIsCopy == TRUE

\* while temp_list: ... temp_list.remove(first_element)
numbers_after_inefficient_list_operations(numbers) ==
    LeftInArgument(TempListIsCopy, numbers, <<>>)

\* temp_deque = deque(numbers)
TempDequeIsCopy == TRUE

\* while temp_deque: ... temp_deque.popleft()
numbers_after_efficient_list_operations(numbers) ==
    LeftInArgument(TempDequeIsCopy, numbers, <<>>)

\* faulty variant: result = data, the swaps then sort the caller's list
Mut_ResultIsCopy == FALSE

\* result = data.copy()
ResultIsCopy == TRUE

\* result[j], result[j + 1] = result[j + 1], result[j]
data_after_inefficient_sorting(data) ==
    LeftInArgument(ResultIsCopy, data, inefficient_sorting(data))

(***************************************************************************)
(* Inputs: every sequence within the bounds, and the literal examples of   *)
(* the specification's testable properties.                                *)
(***************************************************************************)
IntSeqs == SeqsUpTo(Vals, MaxLen) \cup {<<3, 1, 2>>}

PairSeqs == SeqsUpTo(Vals, MaxPairLen)

ExamplePairs == {<<(<<1, 2, 3>>), (<<2, 3, 4>>)>>, <<(<<1, 2, 3>>), (<<2, 5>>)>>}

Words == SeqsUpTo(Alphabet, MaxWordLen)

WordLists == SeqsUpTo(Words, MaxWords) \cup {<<(<<"a">>), (<<"b">>), (<<"c">>)>>}

\* The two sums read the cells only to add them: which cells are added
\* depends on the row lengths alone.  A grid is therefore drawn per shape
\* (a sequence of row lengths), each cell holding its own power of two, so
\* that a total tells which cells went into it.
Shapes == SeqsUpTo(0..MaxCols, MaxRows)

ShapeGrid(shape) ==
    [i \in 1..Len(shape) |->
        [j \in 1..shape[i] |-> 2 ^ ((i - 1) * (MaxCols + 1) + (j - 1))]]

ExampleMatrix == <<(<<1, 2>>), (<<3, 4>>)>>

Matrices == {ShapeGrid(shape) : shape \in Shapes} \cup {ExampleMatrix}

NoFile == [exists |-> FALSE, lines |-> <<>>]

NewProcessor == [data |-> <<>>, processed_data |-> <<>>]

\* __init__ of both processors, and the locals not yet bound
InitCommon ==
    /\ pc = "ready"
    /\ inefficient = NewProcessor
    /\ efficient = NewProcessor
    /\ inefficient_result = Unbound
    /\ efficient_result = Unbound
    /\ raised = None
    /\ stack = <<>>
    /\ memo = EmptyDict
    /\ calls = 0
    /\ line_count = 0
    /\ inefficient_time = 0
    /\ efficient_time = 0
    /\ stdout = <<>>
    /\ invoked = <<>>
    /\ set_order = Unbound

InitCatalog ==
    /\ InitCommon
    /\ file = NoFile
    /\ \/ op = "string_join" /\ args \in [words : WordLists]
       \/ op \in {"duplicate_detection", "sort"} /\ args \in [data : IntSeqs]
       \/ op = "list_transform" /\ args \in [numbers : IntSeqs]
       \/ /\ op = "set_intersection"
          /\ \E p \in (PairSeqs \X PairSeqs) \cup ExamplePairs :
                 args = [list1 |-> p[1], list2 |-> p[2]]
       \/ /\ op = "membership_test"
          /\ \E p \in (PairSeqs \X PairSeqs) \cup ExamplePairs :
                 args = [data |-> p[1], targets |-> p[2]]
       \/ op = "matrix_partial_sum" /\ args \in [matrix : Matrices]
       \/ op = "frequency_count" /\ args \in [items : WordLists]

InitFib ==
    /\ InitCommon
    /\ file = NoFile
    /\ op = "fibonacci"
    /\ args \in [n : 0..MaxN]

(***************************************************************************)
(* The catalog's routines as calls: the naive variant, then the optimized  *)
(* variant on the same arguments.                                          *)
(***************************************************************************)
rest == <<inefficient, efficient, stack, memo, calls, file, line_count,
          inefficient_time, efficient_time, stdout, invoked>>

\* the naive variant returns v and leaves `left` in the argument objects
NaiveReturnsLeaving(v, left) ==
    /\ pc' = "naive_done"
    /\ inefficient_result' = Bind(v)
    /\ args' = left
    /\ UNCHANGED <<op, efficient_result, raised, rest, set_order>>

NaiveReturns(v) == NaiveReturnsLeaving(v, args)

\* list(a_set): the order in which a set is iterated follows from how the
\* set was built, so a set built again in the same way gives the list it
\* gave before
IterateSet(r) ==
    /\ set_order # Unbound => r = set_order[1]
    /\ set_order' = Bind(r)

\* the optimized variant returns v and leaves `left` in the argument objects
OptimizedReturnsLeaving(v, left) ==
    /\ pc' = "done"
    /\ efficient_result' = Bind(v)
    /\ args' = left
    /\ UNCHANGED <<op, inefficient_result, raised, rest, set_order>>

OptimizedReturns(v) == OptimizedReturnsLeaving(v, args)

\* the optimized variant returns list(a_set)
OptimizedReturnsList(r) ==
    /\ pc' = "done"
    /\ efficient_result' = Bind(r)
    /\ IterateSet(r)
    /\ UNCHANGED <<op, args, inefficient_result, raised, rest>>

Raises(exc) ==
    /\ pc' = "raised"
    /\ raised' = exc
    /\ UNCHANGED <<op, args, inefficient_result, efficient_result, rest,
                   set_order>>

RunInefficientStringConcatenation ==
    /\ pc = "ready" /\ op = "string_join"
    /\ NaiveReturns(inefficient_string_concatenation(args.words))

RunEfficientStringConcatenation ==
    /\ pc = "naive_done" /\ op = "string_join"
    /\ OptimizedReturns(efficient_string_concatenation(args.words))

RunInefficientNestedLoops ==
    /\ pc = "ready" /\ op = "duplicate_detection"
    /\ NaiveReturns(inefficient_nested_loops(args.data))

RunEfficientDuplicateDetection ==
    /\ pc = "naive_done" /\ op = "duplicate_detection"
    /\ \E r \in efficient_duplicate_detection(args.data) :
           OptimizedReturnsList(r)

RunInefficientListOperations ==
    /\ pc = "ready" /\ op = "list_transform"
    /\ NaiveReturnsLeaving(
           inefficient_list_operations(args.numbers),
           [numbers |-> numbers_after_inefficient_list_operations(args.numbers)])

RunEfficientListOperations ==
    /\ pc = "naive_done" /\ op = "list_transform"
    /\ OptimizedReturnsLeaving(
           efficient_list_operations(args.numbers),
           [numbers |-> numbers_after_efficient_list_operations(args.numbers)])

RunInefficientSorting ==
    /\ pc = "ready" /\ op = "sort"
    /\ NaiveReturnsLeaving(
           inefficient_sorting(args.data),
           [data |-> data_after_inefficient_sorting(args.data)])

RunEfficientSorting ==
    /\ pc = "naive_done" /\ op = "sort"
    /\ OptimizedReturns(efficient_sorting(args.data))

RunInefficientSetOperations ==
    /\ pc = "ready" /\ op = "set_intersection"
    /\ NaiveReturns(inefficient_set_operations(args.list1, args.list2))

RunEfficientSetOperations ==
    /\ pc = "naive_done" /\ op = "set_intersection"
    /\ \E r \in efficient_set_operations(args.list1, args.list2) :
           OptimizedReturnsList(r)

RunInefficientDataStructureChoice ==
    /\ pc = "ready" /\ op = "membership_test"
    /\ NaiveReturns(inefficient_data_structure_choice(args.data, args.targets))

RunEfficientDataStructureChoice ==
    /\ pc = "naive_done" /\ op = "membership_test"
    /\ OptimizedReturns(efficient_data_structure_choice(args.data, args.targets))

RunInefficientLoopInvariant ==
    /\ pc = "ready" /\ op = "matrix_partial_sum"
    /\ LET r == inefficient_loop_invariant(args.matrix)
       IN  IF r.exc = None THEN NaiveReturns(r.total) ELSE Raises(r.exc)

RunEfficientLoopInvariant ==
    /\ pc = "naive_done" /\ op = "matrix_partial_sum"
    /\ LET r == efficient_loop_invariant(args.matrix)
       IN  IF r.exc = None THEN OptimizedReturns(r.total) ELSE Raises(r.exc)

RunInefficientDictionaryLookup ==
    /\ pc = "ready" /\ op = "frequency_count"
    /\ NaiveReturns(inefficient_dictionary_lookup(args.items))

RunEfficientDictionaryLookup ==
    /\ pc = "naive_done" /\ op = "frequency_count"
    /\ OptimizedReturns(efficient_dictionary_lookup(args.items))

CatalogOperations ==
    {"string_join", "duplicate_detection", "sort", "list_transform",
     "set_intersection", "membership_test", "matrix_partial_sum",
     "frequency_count"}

\* the caller goes on to call both variants again, on the same processors
\* and with the same argument objects
CallAgainSameArguments ==
    /\ pc = "done" /\ op \in CatalogOperations
    /\ calls + 1 < MaxCalls
    /\ calls' = calls + 1
    /\ pc' = "ready"
    /\ UNCHANGED <<op, args, inefficient, efficient, inefficient_result,
                   efficient_result, raised, stack, memo, file, line_count,
                   inefficient_time, efficient_time, stdout, invoked,
                   set_order>>

NextCatalog ==
    \/ RunInefficientStringConcatenation
    \/ RunEfficientStringConcatenation
    \/ RunInefficientNestedLoops
    \/ RunEfficientDuplicateDetection
    \/ RunInefficientListOperations
    \/ RunEfficientListOperations
    \/ RunInefficientSorting
    \/ RunEfficientSorting
    \/ RunInefficientSetOperations
    \/ RunEfficientSetOperations
    \/ RunInefficientDataStructureChoice
    \/ RunEfficientDataStructureChoice
    \/ RunInefficientLoopInvariant
    \/ RunEfficientLoopInvariant
    \/ RunInefficientDictionaryLookup
    \/ RunEfficientDictionaryLookup
    \/ CallAgainSameArguments

(***************************************************************************)
(* Fibonacci calls.                                                        *)
(***************************************************************************)
RunInefficientCalculationCaching ==
    /\ pc = "ready" /\ op = "fibonacci"
    /\ NaiveReturns(inefficient_calculation_caching(args.n))

\* efficient.efficient_calculation_caching(n): no memo argument
CallEfficientCalculationCaching ==
    /\ pc = "naive_done" /\ op = "fibonacci"
    /\ memo' = EnterMemo(FALSE, memo)
    /\ stack' = <<Frame(args.n)>>
    /\ pc' = "running"
    /\ UNCHANGED <<op, args, inefficient, efficient, inefficient_result,
                   efficient_result, raised, calls, file, line_count,
                   inefficient_time, efficient_time, stdout, invoked,
                   set_order>>

\* the top frame returns v: to its caller, or to the driver
FibReturn(v, newmemo) ==
    /\ stack' = Deliver(Pop(stack), v)
    /\ memo' = newmemo
    /\ IF Len(stack) = 1
       THEN pc' = "done" /\ efficient_result' = Bind(v)
       ELSE UNCHANGED <<efficient_result, pc,
                   set_order>>
    /\ UNCHANGED <<op, args, inefficient, efficient, inefficient_result,
                   raised, calls, file, line_count, inefficient_time,
                   efficient_time, stdout, invoked,
                   set_order>>

\* if n in memo: return memo[n]
FibMemoHit ==
    /\ pc = "running" /\ Top(stack).stage = "enter"
    /\ Top(stack).n \in DOMAIN memo
    /\ FibReturn(memo[Top(stack).n], memo)

\* if n <= 1: result = n; memo[n] = result; return result
FibBase ==
    /\ pc = "running" /\ Top(stack).stage = "enter"
    /\ Top(stack).n \notin DOMAIN memo
    /\ Top(stack).n <= 1
    /\ FibReturn(Top(stack).n, DictPut(memo, Top(stack).n, Top(stack).n))

\* else: self.efficient_calculation_caching(n - 1, memo) ...
FibRecurse ==
    /\ pc = "running" /\ Top(stack).stage = "enter"
    /\ Top(stack).n \notin DOMAIN memo
    /\ Top(stack).n > 1
    /\ stack' = Append([stack EXCEPT ![Len(stack)].stage = "first"],
                       Frame(Top(stack).n - 1))
    /\ memo' = EnterMemo(TRUE, memo)
    /\ UNCHANGED <<pc, op, args, inefficient, efficient, inefficient_result,
                   efficient_result, raised, calls, file, line_count,
                   inefficient_time, efficient_time, stdout, invoked,
                   set_order>>

\* memo[n] = result; return result
FibStore ==
    /\ pc = "running" /\ Top(stack).stage = "store"
    /\ FibReturn(Top(stack).result,
                 DictPut(memo, Top(stack).n, Top(stack).result))

\* the driver calls both variants again, with another n
CallAgain ==
    /\ pc = "done" /\ op = "fibonacci"
    /\ calls + 1 < MaxCalls
    /\ calls' = calls + 1
    /\ args' \in [n : 0..MaxN]
    /\ pc' = "ready"
    /\ UNCHANGED <<op, inefficient, efficient, inefficient_result,
                   efficient_result, raised, stack, memo, file, line_count,
                   inefficient_time, efficient_time, stdout, invoked,
                   set_order>>

NextFib ==
    \/ RunInefficientCalculationCaching
    \/ CallEfficientCalculationCaching
    \/ FibMemoHit
    \/ FibBase
    \/ FibRecurse
    \/ FibStore
    \/ CallAgain

(***************************************************************************)
(* File reading.  A file is [exists, lines]; a line read from it ends with *)
(* a newline.  Other processes may remove or cut the file at any time.     *)
(***************************************************************************)
FileLineTexts == {<<>>, <<"a">>, <<" ", "a", " ">>}

FileContents == SeqsUpTo({t \o <<"\n">> : t \in FileLineTexts}, MaxFileLines)

InitFile ==
    /\ InitCommon
    /\ op = "file_read"
    /\ args = [filename |-> "f"]
    /\ \/ file = NoFile
       \/ \E c \in FileContents : file = [exists |-> TRUE, lines |-> c]

\* open(filename, 'r'): the exception it raises, None when it opens
OpenExc(f) == IF f.exists THEN None ELSE "FileNotFoundError"

\* the except clauses around the three opens
FirstPassExcept == {"FileNotFoundError"}

\* faulty variant: the second open outside any try
Mut_SecondPassExcept == {}

SecondPassExcept == {"FileNotFoundError"}

EfficientExcept == {"FileNotFoundError"}

\* for i in range(line_count): line = f.readline(); if line: append strip
RECURSIVE ReadLoop(_, _, _, _)
ReadLoop(content, i, count, lines) ==
    IF i >= count THEN lines
    ELSE LET line == IF i < Len(content) THEN content[i + 1] ELSE <<>>
         IN  ReadLoop(content, i + 1, count,
                      IF line # <<>> THEN Append(lines, Strip(line)) ELSE lines)

\* first pass of inefficient_file_processing: count the lines
CountLines ==
    /\ pc = "ready" /\ op = "file_read"
    /\ LET exc == OpenExc(file)
       IN  IF exc = None
           THEN /\ line_count' = Len(file.lines)
                /\ pc' = "second_pass"
                /\ UNCHANGED <<op, args, inefficient, efficient,
                               inefficient_result, efficient_result, raised,
                               stack, memo, calls, file, inefficient_time,
                               efficient_time, stdout, invoked,
                               set_order>>
           ELSE IF exc \in FirstPassExcept
                THEN NaiveReturns(<<>>)
                ELSE Raises(exc)

\* second pass: read line_count lines
ReadLines ==
    /\ pc = "second_pass" /\ op = "file_read"
    /\ LET exc == OpenExc(file)
       IN  IF exc = None
           THEN NaiveReturns(ReadLoop(file.lines, 0, line_count, <<>>))
           ELSE IF exc \in SecondPassExcept
                THEN NaiveReturns(<<>>)
                ELSE Raises(exc)

RunEfficientFileProcessing ==
    /\ pc = "naive_done" /\ op = "file_read"
    /\ LET exc == OpenExc(file)
       IN  IF exc = None
           THEN OptimizedReturns([k \in 1..Len(file.lines) |->
                                      Strip(file.lines[k])])
           ELSE IF exc \in EfficientExcept
                THEN OptimizedReturns(<<>>)
                ELSE Raises(exc)

FileChanges(f) ==
    /\ op = "file_read" /\ pc \in {"ready", "second_pass", "naive_done"}
    /\ file.exists
    /\ file' = f
    /\ UNCHANGED <<pc, op, args, inefficient, efficient, inefficient_result,
                   efficient_result, raised, stack, memo, calls, line_count,
                   inefficient_time, efficient_time, stdout, invoked,
                   set_order>>

\* another process removes the file
RemoveFile == FileChanges(NoFile)

\* another process cuts the file's last line
TruncateFile ==
    /\ file.lines # <<>>
    /\ FileChanges([file EXCEPT !.lines = Pop(file.lines)])

NextFile ==
    \/ CountLines
    \/ ReadLines
    \/ RunEfficientFileProcessing
    \/ RemoveFile
    \/ TruncateFile

(***************************************************************************)
(* compare_performance.  Elapsed times are whole microseconds; a printed   *)
(* line is a tuple of its text and its formatted values.                   *)
(***************************************************************************)
\* list(range(n))
RangeList(n) == [k \in 1..n |-> k - 1]

InitHarness ==
    /\ InitCommon
    /\ file = NoFile
    /\ op = "compare_performance"
    /\ args = [test_data |-> RangeList(TestSize) \o RangeList(TestHalf),
               words |-> [k \in 1..TestWords |-> <<"t", "e", "s", "t">>]]

\* f"{seconds:.6f}": whole seconds and six decimals
Fixed6(micros) == [whole |-> micros \div 1000000, decimals |-> micros % 1000000]

\* f"{a / b:.2f}": the quotient rounded to two decimals
Fixed2(a, b) ==
    LET hundredths == (200 * a + b) \div (2 * b)
    IN  [whole |-> hundredths \div 100, decimals |-> hundredths % 100]

harness_frame == <<op, args, inefficient, efficient, raised, stack, memo,
                   calls, file, line_count>>

PrintHeader ==
    /\ pc = "ready" /\ op = "compare_performance"
    /\ stdout' = stdout \o << <<"Performance Comparison:">>, <<"=", 50>> >>
    /\ pc' = "time_nested_loops"
    /\ UNCHANGED <<harness_frame, inefficient_result, efficient_result,
                   inefficient_time, efficient_time, invoked,
                   set_order>>

\* lines 142-144
TimeInefficientNestedLoops ==
    /\ pc = "time_nested_loops"
    /\ inefficient_result' = Bind(inefficient_nested_loops(args.test_data))
    /\ invoked' = Append(invoked, [routine |-> "inefficient_nested_loops",
                                   argument |-> args.test_data])
    /\ inefficient_time' \in 0..MaxTime
    /\ pc' = "time_duplicate_detection"
    /\ UNCHANGED <<harness_frame, efficient_result, efficient_time, stdout,
                   set_order>>

\* lines 146-148
TimeEfficientDuplicateDetection ==
    /\ pc = "time_duplicate_detection"
    /\ \E r \in efficient_duplicate_detection(args.test_data) :
           efficient_result' = Bind(r) /\ IterateSet(r)
    /\ invoked' = Append(invoked, [routine |-> "efficient_duplicate_detection",
                                   argument |-> args.test_data])
    /\ efficient_time' \in 0..MaxTime
    /\ pc' = "report_duplicate_detection"
    /\ UNCHANGED <<harness_frame, inefficient_result, inefficient_time, stdout>>

\* the three prints before the quotient is taken
TimingLines(label) ==
    << <<label>>,
       <<"  Inefficient: ", Fixed6(inefficient_time), "s">>,
       <<"  Efficient:   ", Fixed6(efficient_time), "s">> >>

SpeedupLine ==
    <<"  Speedup:     ", Fixed2(inefficient_time, efficient_time), "x">>

\* lines 150-154; the division raises when efficient_time is 0
ReportDuplicateDetection ==
    /\ pc = "report_duplicate_detection"
    /\ IF efficient_time = 0
       THEN /\ stdout' = stdout \o TimingLines("Duplicate Detection:")
            /\ raised' = "ZeroDivisionError"
            /\ pc' = "raised"
       ELSE /\ stdout' = stdout \o TimingLines("Duplicate Detection:")
                   \o << SpeedupLine,
                         <<"  Results match: ",
                           Range(inefficient_result[1])
                               = Range(efficient_result[1])>> >>
            /\ raised' = raised
            /\ pc' = "time_inefficient_concatenation"
    /\ UNCHANGED <<op, args, inefficient, efficient, stack, memo, calls, file,
                   line_count, inefficient_result, efficient_result,
                   inefficient_time, efficient_time, invoked,
                   set_order>>

\* lines 158-160; the returned string is dropped
TimeInefficientStringConcatenation ==
    /\ pc = "time_inefficient_concatenation"
    /\ invoked' = Append(invoked,
                      [routine |-> "inefficient_string_concatenation",
                       argument |-> args.words])
    /\ inefficient_time' \in 0..MaxTime
    /\ pc' = "time_efficient_concatenation"
    /\ UNCHANGED <<harness_frame, inefficient_result, efficient_result,
                   efficient_time, stdout,
                   set_order>>

\* lines 162-164; the returned string is dropped
TimeEfficientStringConcatenation ==
    /\ pc = "time_efficient_concatenation"
    /\ invoked' = Append(invoked,
                      [routine |-> "efficient_string_concatenation",
                       argument |-> args.words])
    /\ efficient_time' \in 0..MaxTime
    /\ pc' = "report_concatenation"
    /\ UNCHANGED <<harness_frame, inefficient_result, efficient_result,
                   inefficient_time, stdout,
                   set_order>>

\* lines 166-169
ReportStringConcatenation ==
    /\ pc = "report_concatenation"
    /\ IF efficient_time = 0
       THEN /\ stdout' = stdout \o TimingLines("\nString Concatenation:")
            /\ raised' = "ZeroDivisionError"
            /\ pc' = "raised"
       ELSE /\ stdout' = stdout \o TimingLines("\nString Concatenation:")
                   \o << SpeedupLine >>
            /\ raised' = raised
            /\ pc' = "done"
    /\ UNCHANGED <<op, args, inefficient, efficient, stack, memo, calls, file,
                   line_count, inefficient_result, efficient_result,
                   inefficient_time, efficient_time, invoked,
                   set_order>>

NextHarness ==
    \/ PrintHeader
    \/ TimeInefficientNestedLoops
    \/ TimeEfficientDuplicateDetection
    \/ ReportDuplicateDetection
    \/ TimeInefficientStringConcatenation
    \/ TimeEfficientStringConcatenation
    \/ ReportStringConcatenation

Init == InitCatalog \/ InitFib \/ InitFile \/ InitHarness

Next == NextCatalog \/ NextFib \/ NextFile \/ NextHarness

Spec == Init /\ [][Next]_vars

\* a running interpreter keeps taking steps (every step of NextFib changes
\* pc, stack or calls)
SpecFib == InitFib /\ [][NextFib]_vars /\ WF_<<pc, stack, calls>>(NextFib)

(***************************************************************************)
(* Properties.                                                             *)
(***************************************************************************)
\* what the two variants returned
NaiveValue == inefficient_result[1]

OptimizedValue == efficient_result[1]

\* number of places of seq that hold v
Count(seq, v) == Cardinality({k \in DOMAIN seq : seq[k] = v})

NoRepeat(seq) == \A v \in Range(seq) : Count(seq, v) = 1

\* where word k starts in the joined string, less one
RECURSIVE Offset(_, _)
Offset(words, k) ==
    IF k = 1 THEN 0 ELSE Offset(words, k - 1) + Len(words[k - 1]) + 1

\* s is the words in order, one space between neighbours, nothing else
IsSpaceJoined(s, words) ==
    IF words = <<>> THEN s = <<>>
    ELSE /\ Len(s) = Offset(words, Len(words)) + Len(words[Len(words)])
         /\ \A k \in DOMAIN words :
              /\ SubSeq(s, Offset(words, k) + 1,
                        Offset(words, k) + Len(words[k])) = words[k]
              /\ k > 1 => s[Offset(words, k)] = " "

NoOuterWhitespace(s) ==
    s # <<>> => s[1] \notin Whitespace /\ s[Len(s)] \notin Whitespace

\* t is s without its leading and trailing whitespace
IsStripOf(t, s) ==
    /\ NoOuterWhitespace(t)
    /\ \E a \in 0..Len(s) :
         /\ a + Len(t) <= Len(s)
         /\ SubSeq(s, a + 1, a + Len(t)) = t
         /\ \A k \in 1..Len(s) :
                (k <= a \/ k > a + Len(t)) => s[k] \in Whitespace

JoinDone == op = "string_join" /\ pc = "done"

\* C1 as stated: for every sequence of strings, empty strings and strings
\* with outer whitespace included, both variants return the same string, the
\* words joined by single spaces (the empty string for no words).
C1_SameStringAlways ==
    JoinDone =>
        /\ NaiveValue = OptimizedValue
        /\ IsSpaceJoined(OptimizedValue, args.words)

\* C1 amended: the optimized variant returns the words joined by single
\* spaces; the naive variant returns that string with its leading and
\* trailing whitespace stripped; the two are the same string exactly when
\* the joined string neither begins nor ends with whitespace, and both are
\* empty for no words.
C1_NaiveIsStrippedJoin ==
    JoinDone =>
        /\ IsSpaceJoined(OptimizedValue, args.words)
        /\ IsStripOf(NaiveValue, OptimizedValue)
        /\ (NaiveValue = OptimizedValue)
               <=> NoOuterWhitespace(OptimizedValue)
        /\ args.words = <<>> =>
               NaiveValue = <<>> /\ OptimizedValue = <<>>

C1_Witness ==
    /\ JoinDone
    /\ args.words = <<(<<>>), (<<"a", " ">>)>>
    /\ NaiveValue = <<"a">>
    /\ OptimizedValue = <<" ", "a", " ">>

\* the values that occur at least twice in seq
Repeated(seq) == {v \in Range(seq) : Count(seq, v) >= 2}

\* C2: the values the naive and the optimized duplicate detection return
\* are, as sets, the same: the values that occur at least twice in the input.
C2_DuplicateSets ==
    (op = "duplicate_detection" /\ pc = "done") =>
        /\ Range(NaiveValue) = Range(OptimizedValue)
        /\ Range(NaiveValue) = Repeated(args.data)
        /\ Range(OptimizedValue) = Repeated(args.data)

C2_Witness ==
    /\ op = "duplicate_detection" /\ pc = "done"
    /\ Cardinality(Repeated(args.data)) = 2
    /\ NaiveValue # OptimizedValue

\* the cells of the top-left quadrant, each row halved by its own length
QuadrantCells(matrix) ==
    {c \in (1..Len(matrix)) \X (1..MaxCols + 2) :
        /\ c[1] <= Len(matrix) \div 2
        /\ c[2] <= Len(matrix[c[1]]) \div 2}

RECURSIVE SumCells(_, _)
SumCells(matrix, cells) ==
    IF cells = {} THEN 0
    ELSE LET c == CHOOSE c \in cells : TRUE
         IN  matrix[c[1]][c[2]] + SumCells(matrix, cells \ {c})

\* C3: on every grid, ragged or with no rows or with rows of length 0 or 1,
\* neither variant fails and both return the sum of matrix[i][j] over
\* i < len(matrix) // 2 and j < len(matrix[i]) // 2; [[1,2],[3,4]] gives 1.
C3_QuadrantTotals ==
    op = "matrix_partial_sum" =>
        /\ raised = None /\ pc # "raised"
        /\ pc \in {"naive_done", "done"} =>
               NaiveValue = SumCells(args.matrix, QuadrantCells(args.matrix))
        /\ pc = "done" =>
               /\ OptimizedValue = NaiveValue
               /\ args.matrix = ExampleMatrix => OptimizedValue = 1

C3_Witness ==
    /\ op = "matrix_partial_sum" /\ pc = "done"
    /\ Len(args.matrix) = 4
    /\ Len(args.matrix[1]) = 0 /\ Len(args.matrix[2]) = 2
    /\ Len(args.matrix[3]) = 1
    /\ OptimizedValue = args.matrix[2][1]

\* the nth Fibonacci number, counted up from F(0) = 0, F(1) = 1
RECURSIVE FibUp(_, _, _)
FibUp(k, a, b) == IF k = 0 THEN a ELSE FibUp(k - 1, b, a + b)

FibNumber(n) == FibUp(n, 0, 1)

FibValues ==
    op = "fibonacci" =>
        /\ pc \in {"naive_done", "running", "done"} =>
               NaiveValue = FibNumber(args.n)
        /\ pc = "done" =>
               /\ OptimizedValue = NaiveValue
               /\ args.n = 0 => OptimizedValue = 0
               /\ args.n = 1 => OptimizedValue = 1
               /\ args.n = 10 => OptimizedValue = 55
        \* the outermost call has just bound memo
        /\ (pc = "running" /\ Len(stack) = 1 /\ Top(stack).stage = "enter") =>
               memo = EmptyDict

\* C4: for every n in 0..MaxN the naive and the memoized variant return the
\* same value, the nth Fibonacci number (0, 1 and 55 for n = 0, 1 and 10);
\* every call of the memoized variant without a memo argument starts from an
\* empty memo, and it terminates.
C4_Fibonacci ==
    /\ []FibValues
    /\ (pc = "naive_done") ~> (pc = "done")

C4_Witness ==
    /\ op = "fibonacci" /\ pc = "done"
    /\ calls = 1
    /\ args.n = 10
    /\ OptimizedValue = 55
    /\ DOMAIN memo = 0..10

IsAscending(seq) == \A k \in 1..(Len(seq) - 1) : seq[k] <= seq[k + 1]

SameMultiset(s, t) ==
    /\ Len(s) = Len(t)
    /\ \A v \in Range(s) \cup Range(t) : Count(s, v) = Count(t, v)

\* C5: bubble sort and the built-in sort return the same list, the input's
\* values (as a multiset) in ascending order; a sorted input comes back
\* unchanged.
C5_Sorting ==
    (op = "sort" /\ pc = "done") =>
        /\ NaiveValue = OptimizedValue
        /\ IsAscending(NaiveValue)
        /\ SameMultiset(NaiveValue, args.data)
        /\ IsAscending(args.data) =>
               NaiveValue = args.data /\ OptimizedValue = args.data

C5_Witness ==
    /\ op = "sort" /\ pc = "done"
    /\ args.data = <<2, 1, 2, 0>>
    /\ NaiveValue = <<0, 1, 2, 2>>
    /\ OptimizedValue = <<0, 1, 2, 2>>

\* C6: each intersection variant returns a list without a repeated value
\* whose values are exactly those present in both inputs, in any order.
C6_Intersection ==
    (op = "set_intersection" /\ pc = "done") =>
        LET both == Range(args.list1) \cap Range(args.list2)
        IN  /\ NoRepeat(NaiveValue)
            /\ NoRepeat(OptimizedValue)
            /\ Range(NaiveValue) = both
            /\ Range(OptimizedValue) = both

C6_Witness ==
    /\ op = "set_intersection" /\ pc = "done"
    /\ args.list1 = <<1, 2, 3>> /\ args.list2 = <<2, 3, 4>>
    /\ NaiveValue = <<2, 3>>
    /\ OptimizedValue = <<3, 2>>

\* C7: both list transformations return the same list: the input's elements
\* doubled, in reverse order, as many as the input has.
C7_DoubledReversed ==
    (op = "list_transform" /\ pc = "done") =>
        /\ NaiveValue = OptimizedValue
        /\ Len(NaiveValue) = Len(args.numbers)
        /\ \A k \in DOMAIN args.numbers :
               NaiveValue[Len(args.numbers) - k + 1]
                   = 2 * args.numbers[k]

C7_Witness ==
    /\ op = "list_transform" /\ pc = "done"
    /\ args.numbers = <<1, 2, 1, 0>>
    /\ NaiveValue = <<0, 2, 4, 2>>

\* C8: both membership tests return the same list of booleans, one per
\* target, entry k telling whether targets[k] occurs in data; data [1,2,3]
\* with targets [2,5] gives [true, false].
C8_Membership ==
    (op = "membership_test" /\ pc = "done") =>
        /\ NaiveValue = OptimizedValue
        /\ Len(OptimizedValue) = Len(args.targets)
        /\ \A k \in DOMAIN args.targets :
               OptimizedValue[k]
                   <=> \E m \in DOMAIN args.data : args.data[m] = args.targets[k]
        /\ (args.data = <<1, 2, 3>> /\ args.targets = <<2, 5>>) =>
               OptimizedValue = <<TRUE, FALSE>>

C8_Witness ==
    /\ op = "membership_test" /\ pc = "done"
    /\ args.data = <<1, 2, 3>> /\ args.targets = <<2, 5>>
    /\ NaiveValue = <<TRUE, FALSE>>
    /\ OptimizedValue = <<TRUE, FALSE>>

\* C9: a file that is absent when opened gives an empty list and no
\* exception: at the open of efficient_file_processing, and at the first and
\* at the second open of inefficient_file_processing (so also when the file
\* goes away between the two passes).
C9_AbsentFileGivesEmpty ==
    [][op = "file_read" =>
          /\ raised' = None /\ pc' # "raised"
          /\ (pc \in {"ready", "second_pass"} /\ ~file.exists) =>
                 pc' = "naive_done" /\ inefficient_result' = Bind(<<>>)
          /\ (pc = "naive_done" /\ ~file.exists) =>
                 pc' = "done" /\ efficient_result' = Bind(<<>>)
      ]_<<pc, op>>

\* the first pass has counted the lines of a file that is gone when the
\* second pass is about to open it
C9_Witness ==
    /\ op = "file_read" /\ pc = "second_pass"
    /\ line_count = MaxFileLines
    /\ ~file.exists

\* the benchmarks of compare_performance: label, naive and optimized routine
Benchmarks ==
    { [label |-> "Duplicate Detection:",
       naive |-> "inefficient_nested_loops",
       optimized |-> "efficient_duplicate_detection"],
      [label |-> "\nString Concatenation:",
       naive |-> "inefficient_string_concatenation",
       optimized |-> "efficient_string_concatenation"] }

\* the naive routine was called and right after it the optimized one, both
\* with the same argument
InvokedInOrder(b) ==
    \E k \in 1..(Len(invoked) - 1) :
        /\ invoked[k].routine = b.naive
        /\ invoked[k + 1].routine = b.optimized
        /\ invoked[k].argument = invoked[k + 1].argument

\* the microseconds a printed time stands for
Micros(shown) == shown.whole * 1000000 + shown.decimals

\* the lines printed from place k on are label, the naive time, the
\* optimized time and the quotient of the two
TimingBlockAt(k, label) ==
    /\ k + 3 <= Len(stdout)
    /\ stdout[k] = <<label>>
    /\ Len(stdout[k + 1]) = 3 /\ stdout[k + 1][1] = "  Inefficient: "
    /\ Len(stdout[k + 2]) = 3 /\ stdout[k + 2][1] = "  Efficient:   "
    /\ Len(stdout[k + 3]) = 3 /\ stdout[k + 3][1] = "  Speedup:     "
    /\ Micros(stdout[k + 2][2]) # 0
    /\ stdout[k + 3][2] = Fixed2(Micros(stdout[k + 1][2]),
                                 Micros(stdout[k + 2][2]))

\* ... and the line after them is the match line
MatchLineAt(k) ==
    /\ k <= Len(stdout)
    /\ Len(stdout[k]) = 2
    /\ stdout[k][1] = "  Results match: "
    /\ stdout[k][2] \in BOOLEAN

HarnessDone == op = "compare_performance" /\ pc = "done"

\* the part of C10 the harness does meet: both variants called in order on
\* the same input, and a timing block per benchmark
C10_CallsAndTimings ==
    HarnessDone =>
        \A b \in Benchmarks :
            /\ InvokedInOrder(b)
            /\ \E k \in 1..Len(stdout) : TimingBlockAt(k, b.label)

\* C10 as stated: for each benchmarked operation the naive and then the
\* optimized variant are called on the same input, and its report block
\* holds the label, both elapsed times, their ratio and a match boolean.
C10_EveryBlockComplete ==
    HarnessDone =>
        \A b \in Benchmarks :
            /\ InvokedInOrder(b)
            /\ \E k \in 1..Len(stdout) :
                   TimingBlockAt(k, b.label) /\ MatchLineAt(k + 4)

\* the report blocks of both benchmarks are on stdout up to their quotient line
BothBlocksPrinted ==
    \A b \in Benchmarks :
        \E k \in 1..Len(stdout) : TimingBlockAt(k, b.label)

\* C11: compare_performance never aborts before the report is complete:
\* whatever the two variants returned and whatever non-negative elapsed times
\* were measured, an optimized time of exactly zero included, no exception
\* leaves it, and once it has stopped the report blocks of both operations
\* have been printed.
C11_NeverAborts ==
    op = "compare_performance" =>
        /\ raised = None
        /\ pc # "raised"
        /\ pc \in {"done", "raised"} => BothBlocksPrinted

\* a step of a catalog call that keeps the call pure
PureStep ==
    /\ inefficient' = NewProcessor /\ efficient' = NewProcessor
    /\ (pc # "done") => (args' = args)
    /\ (op \in CatalogOperations /\ calls > 0) =>
           /\ inefficient_result' = inefficient_result
           /\ efficient_result' = efficient_result
    /\ (op = "fibonacci" /\ pc # "naive_done" /\ pc' = "naive_done") =>
           (inefficient_result'[1] = FibNumber(args.n))
    /\ (op = "fibonacci" /\ pc # "done" /\ pc' = "done") =>
           (efficient_result'[1] = FibNumber(args.n))

====
